---- MODULE Spec2Model ----
(***************************************************************************)
(* Model of the 3D scene code of the portfolio page: the instanced         *)
(* background animator BackgroundInstances (wobble variant of              *)
(* src/unnamed/part_000 and part_001, sliding variant of src/src/App.jsx)  *)
(* and the project modal's rover viewer.                                   *)
(*                                                                         *)
(* Fixed point: lengths, scales and trigonometric values are in            *)
(* thousandths, angles handed to Sin/Cos in hundredths of a radian,        *)
(* elapsed time in whole seconds.                                          *)
(***************************************************************************)
EXTENDS Integers, Sequences, FiniteSets, TLC

VARIABLES
    variant,        \* "wobble" (part_000, part_001) or "sliding" (App.jsx)
    instanceData,   \* the memoised descriptor list
    bgView,         \* lifecycle of BackgroundInstances: pending, mounted, unmounted
    capacity,       \* capacity[g]: count the instancedMesh of class g was built with
    meshRefs,       \* meshRefs.current[g] is a mesh (TRUE) or null (FALSE)
    dummy,          \* the shared scratch THREE.Object3D
    clock,          \* state.clock elapsed time, seconds
    ops,            \* buffer operations performed by the step just taken
    error,          \* the step just taken threw
    reused,         \* the step just taken was a frame that found the scratch object used
    event,          \* the kind of handler that ran last: init, lifecycle, frame, ui
    selectedProject,\* App state: "none" or a project id
    shownProject,   \* the project prop of the mounted modal, "none" when absent
    modalView,      \* absent, present, exiting (AnimatePresence)
    asset,          \* useGLTF cache for /rover_model.glb: idle, pending, loaded
    modelRef,       \* CustomRoverModel modelRef.current is the primitive
    roverSpin,      \* number of 0.005 rad increments applied to the rover
    probe,          \* arguments of a function under test, [fn |-> "none"] otherwise
    result,         \* << >> before that function returned, <<value>> after
    gear,           \* one TechnicalGear: its props, its memoised geometry, its spin
    geometries,     \* the memoised base geometry list of BackgroundInstances
    activeSection,  \* the page section the navigation marks as current
    build,          \* the source file the running page was built from
    env,            \* the environment map both canvases suspend on
    scene,          \* the nodes of the loaded rover scene
    fallback,       \* the modal canvas shows its Suspense fallback
    crashed,        \* a render error left the page without a component tree
    rects           \* per section: its element, if registered, and where its box lies

vars == <<variant, instanceData, bgView, capacity, meshRefs, dummy, clock, ops,
          error, reused, event, selectedProject, shownProject, modalView, asset, modelRef,
          roverSpin, probe, result, gear, geometries, activeSection,
          build, env, scene, fallback, crashed, rects>>

modalVars == <<selectedProject, shownProject, modalView, asset, modelRef, roverSpin,
               build, env, scene, fallback, crashed>>

auxVars == <<probe, result, gear, geometries, activeSection, rects>>

-----------------------------------------------------------------------------
(* Bounds *)

Count == 2          \* the count prop of BackgroundInstances
MaxT == 2           \* largest elapsed time read by a frame
MaxSpin == 2        \* rover rotation steps of 0.005 rad that are followed
MaxBuilds == 2      \* geometry constructions of one gear that are followed
MaxNodes == 2       \* nodes of the rover scene

(* Program constants *)

NumGeometries == 5
Classes == 0 .. (NumGeometries - 1)

-----------------------------------------------------------------------------
(* Arithmetic *)

Pi == 314
TwoPi == 628

\* Math.sin on [0, pi], Bhaskara's rational approximation, result in 0..1000
HalfSine(x) == (16000 * x * (Pi - x)) \div (5 * Pi * Pi - 4 * x * (Pi - x))

\* Math.sin: angle in hundredths of a radian, result in thousandths
Sin(a) ==
    LET r == a % TwoPi
    IN IF r <= Pi THEN HalfSine(r) ELSE 0 - HalfSine(r - Pi)

\* Math.cos
Cos(a) == Sin(a + 157)

\* variant: the dividend returned as it is
JsRemDropped(a, n) == a

\* the JavaScript % operator: the result keeps the sign of the dividend
JsRem(a, n) == IF a >= 0 THEN a % n ELSE 0 - ((0 - a) % n)

-----------------------------------------------------------------------------
(* useMemo: a cache of one value keyed by its dependency list *)

EmptyMemo == [valid |-> FALSE, deps |-> << >>, value |-> << >>, builds |-> 0]

\* variant: the factory run on every render
UseMemoAlways(cache, deps, fresh) ==
    [valid |-> TRUE, deps |-> deps, value |-> fresh, builds |-> cache.builds + 1]

\* useMemo(factory, deps): the factory runs on the first render and when a
\* dependency changed; builds numbers the objects it has made
UseMemo(cache, deps, fresh) ==
    IF cache.valid /\ cache.deps = deps
    THEN cache
    ELSE [valid |-> TRUE, deps |-> deps, value |-> fresh, builds |-> cache.builds + 1]

-----------------------------------------------------------------------------
(* The gear profile of TechnicalGear *)

\* Math.PI * 2 in millionths of a radian
TwoPiMicro == 6283185

\* angleStep = (Math.PI * 2) / (numTeeth * 2), millionths of a radian
AngleStep(numTeeth) == TwoPiMicro \div (numTeeth * 2)

\* variant: the parity test inverted
ToothRadiusSwapped(i, outerRadius, innerRadius) ==
    IF i % 2 = 0 THEN innerRadius ELSE outerRadius

\* r = i % 2 === 0 ? outerRadius : innerRadius
ToothRadius(i, outerRadius, innerRadius) ==
    IF i % 2 = 0 THEN outerRadius ELSE innerRadius

\* the loop body: one vertex, moveTo for the first and lineTo for the rest
GearVertex(i, angleStep, outerRadius, innerRadius) ==
    LET angle == (i * angleStep) \div 10000
        r == ToothRadius(i, outerRadius, innerRadius)
    IN [cmd |-> IF i = 0 THEN "moveTo" ELSE "lineTo",
        x |-> (Cos(angle) * r) \div 1000,
        y |-> (Sin(angle) * r) \div 1000]

\* variant: the loop runs over numTeeth instead of numTeeth * 2
GearLoopEndHalf(numTeeth) == numTeeth

\* the bound of for (let i = 0; i < numTeeth * 2; i++)
GearLoopEnd(numTeeth) == numTeeth * 2

RECURSIVE GearLoop(_, _, _, _, _)
GearLoop(path, i, numTeeth, outerRadius, innerRadius) ==
    IF ~(i < GearLoopEnd(numTeeth)) THEN path
    ELSE GearLoop(Append(path, GearVertex(i, AngleStep(numTeeth), outerRadius, innerRadius)),
                  i + 1, numTeeth, outerRadius, innerRadius)

\* variant: the hole drawn with three times its radius
HolePathOversized(holeRadius) ==
    [x |-> 0, y |-> 0, radius |-> holeRadius * 3, startAngle |-> 0,
     endAngle |-> TwoPiMicro, clockwise |-> FALSE]

\* holePath.absarc(0, 0, holeRadius, 0, Math.PI * 2, false)
HolePath(holeRadius) ==
    [x |-> 0, y |-> 0, radius |-> holeRadius, startAngle |-> 0,
     endAngle |-> TwoPiMicro, clockwise |-> FALSE]

\* the shape the useMemo factory of TechnicalGear builds from its props
GearShape(size, teeth) ==
    LET outerRadius == size
        innerRadius == (size * 85) \div 100
        holeRadius == (size * 40) \div 100
    IN [path |-> GearLoop(<< >>, 0, teeth, outerRadius, innerRadius),
        holes |-> << HolePath(holeRadius) >>]

\* sizes and tooth counts handed to TechnicalGear: the four gears of the
\* scene, the defaults, and values outside the documented range
GearSizes == {-1000, 0, 1000, 1500, 2000, 3000}
GearTeeth == {0, 1, 2, 3, 8, 12, 16, 24}

\* the four gears of the scene: size and teeth of each TechnicalGear element
PageGears == {<<2000, 16>>, <<1000, 8>>, <<3000, 24>>, <<1500, 12>>}

GearInit == [mounted |-> FALSE, size |-> 0, teeth |-> 0, memo |-> EmptyMemo, spin |-> 0]

\* the dependency list of the geometry memo
GearMemoDeps(size, teeth) == <<size, teeth>>

\* a render of TechnicalGear with the given props
GearRender(size, teeth) ==
    /\ gear.mounted /\ <<size, teeth>> # <<gear.size, gear.teeth>>
            => gear.memo.builds < MaxBuilds
    /\ gear' = [gear EXCEPT !.mounted = TRUE, !.size = size, !.teeth = teeth,
                            !.memo = UseMemo(@, GearMemoDeps(size, teeth), GearShape(size, teeth))]
    /\ event' = "render"
    /\ UNCHANGED <<variant, instanceData, bgView, capacity, meshRefs, dummy, clock,
                   ops, error, reused, probe, result, geometries, activeSection, rects>>
    /\ UNCHANGED modalVars

\* the frame callback of TechnicalGear: the mesh turns about its axis
GearFrame ==
    /\ gear.mounted
    /\ gear.spin < MaxSpin
    /\ gear' = [gear EXCEPT !.spin = @ + 1]
    /\ event' = "gearFrame"
    /\ UNCHANGED <<variant, instanceData, bgView, capacity, meshRefs, dummy, clock,
                   ops, error, reused, probe, result, geometries, activeSection, rects>>
    /\ UNCHANGED modalVars

GearNext ==
    \/ \E size \in GearSizes, teeth \in GearTeeth : GearRender(size, teeth)
    \/ GearFrame

-----------------------------------------------------------------------------
(* Setup: Math.random is a fixed pseudo-random sequence for the continuous
   fields (the k-th descriptor draws its own values); the geometry index of
   every descriptor is free *)

\* a draw of Math.random() in thousandths, 0 .. 999
Random(k, j) == (k * 617 + j * 389 + 173) % 1000

\* (0.5 - Math.random()) * spread, in thousandths
Spread(r, spread) == ((500 - r) * spread)

\* the values Math.random() can return, in thousandths: 0 included, 1 not
RandomDraws == 0 .. 999

\* variant: Math.round in place of Math.floor
GeometryIndexRounded(r) == (r * NumGeometries + 500) \div 1000

\* Math.floor(Math.random() * geometries.length)
GeometryIndex(r) == (r * NumGeometries) \div 1000

GeometryIndexes == {GeometryIndex(r) : r \in RandomDraws}

WobbleDescriptors(k) ==
    { [position |-> << Spread(Random(k, 1), 25), Spread(Random(k, 2), 25),
                       Spread(Random(k, 3), 25) >>,
       geometryIndex |-> g] : g \in GeometryIndexes }

SlidingDescriptors(k) ==
    { [position |-> << Spread(Random(k, 1), 40), Spread(Random(k, 2), 40),
                       Spread(Random(k, 3), 40) >>,
       rotation |-> << (Random(k, 4) * Pi) \div 100, (Random(k, 5) * Pi) \div 100,
                       (Random(k, 6) * Pi) \div 100 >>,
       scale |-> (Random(k, 7) * 7) \div 10 + 300,
       geometryIndex |-> g,
       speed |-> (Random(k, 8) * 5) \div 100 + 10] : g \in GeometryIndexes }

Descriptors(v, k) ==
    IF v = "wobble" THEN WobbleDescriptors(k) ELSE SlidingDescriptors(k)

\* Array.from({ length: count }, ...)
DescriptorLists(v) ==
    { data \in [1 .. Count -> UNION {Descriptors(v, k) : k \in 1 .. Count}] :
        \A k \in 1 .. Count : data[k] \in Descriptors(v, k) }

\* new THREE.Object3D(): origin, no rotation, unit scale, identity matrix
Compose(p, r, s) == [p |-> p, r |-> r, s |-> s]

DummyInit ==
    [position |-> <<0, 0, 0>>, rotation |-> <<0, 0, 0>>, scale |-> <<1000, 1000, 1000>>,
     matrix |-> Compose(<<0, 0, 0>>, <<0, 0, 0>>, <<1000, 1000, 1000>>)]

-----------------------------------------------------------------------------
(* Render: the count each instancedMesh is constructed with *)

\* variant: the buffers sized as an even split of count
AllocatedCountEvenSplit(data, g) == Len(data) \div NumGeometries

\* variant: the filter compares with >= instead of ===
AllocatedCountAtLeast(data, g) ==
    Cardinality({k \in DOMAIN data : data[k].geometryIndex >= g})

AllocatedCount(data, g) ==
    Cardinality({k \in DOMAIN data : data[k].geometryIndex = g})

(* Frame update *)

\* variant: the grouping loop stops one descriptor short
InstanceGroupsSkipLast(data) ==
    [g \in Classes |->
        SelectSeq(SubSeq(data, 1, Len(data) - 1), LAMBDA d : d.geometryIndex = g)]

\* variant: descriptors put at the front of their group (unshift)
InstanceGroupsUnshift(data) ==
    [g \in Classes |->
        LET group == SelectSeq(data, LAMBDA d : d.geometryIndex = g)
        IN [i \in 1 .. Len(group) |-> group[Len(group) + 1 - i]]]

\* instanceGroups: one list per geometry, descriptors pushed in creation order
InstanceGroups(data) ==
    [g \in Classes |-> SelectSeq(data, LAMBDA d : d.geometryIndex = g)]

\* variant: slots counted from one
SlotIndexOneBased(k) == k

\* the forEach index of the k-th element of a group
SlotIndex(k) == k - 1

\* variant: rotation.y accumulated (+=) instead of assigned
WobbleInstanceAccumulating(dm, d, t) ==
    LET timeOffset == d.position[1] \div 100
        x == d.position[1] + (Sin(t * 50 + timeOffset) \div 10)
        y == d.position[2] + (Cos(t * 50 + timeOffset) \div 10)
        z == d.position[3]
    IN [dm EXCEPT !.position = <<x, y, z>>,
                  !.rotation[1] = Sin(t * 30 + timeOffset),
                  !.rotation[2] = @ + Cos(t * 40 + timeOffset)]

\* variant: the wobble applied to z as well
WobbleInstanceAllAxes(dm, d, t) ==
    LET timeOffset == d.position[1] \div 100
        x == d.position[1] + (Sin(t * 50 + timeOffset) \div 10)
        y == d.position[2] + (Cos(t * 50 + timeOffset) \div 10)
        z == d.position[3] + (Sin(t * 50 + timeOffset) \div 10)
    IN [dm EXCEPT !.position = <<x, y, z>>,
                  !.rotation[1] = Sin(t * 30 + timeOffset),
                  !.rotation[2] = Cos(t * 40 + timeOffset)]

WobbleInstance(dm, d, t) ==
    LET timeOffset == d.position[1] \div 100
        x == d.position[1] + (Sin(t * 50 + timeOffset) \div 10)
        y == d.position[2] + (Cos(t * 50 + timeOffset) \div 10)
        z == d.position[3]
    IN [dm EXCEPT !.position = <<x, y, z>>,
                  !.rotation[1] = Sin(t * 30 + timeOffset),
                  !.rotation[2] = Cos(t * 40 + timeOffset)]

\* variant: the loop-around line left out
WrapZNever(z) == z

\* if (z > 20) z -= 40;
WrapZ(z) == IF z > 20000 THEN z - 40000 ELSE z

\* variant: the rotation added to what the scratch object holds
SlidingInstanceAccumulating(dm, d, t) ==
    LET slideSpeed == d.speed
        x == d.position[1] + Sin((t * slideSpeed * 5) \div 100) * 5
        y == d.position[2] + Cos((t * slideSpeed * 7) \div 100) * 5
        z == WrapZ(JsRem(d.position[3] + t * slideSpeed, 40000))
    IN [dm EXCEPT !.position = <<x, y, z>>,
                  !.rotation = << @[1] + d.rotation[1] + (t * slideSpeed * 3) \div 10,
                                  @[2] + d.rotation[2] + (t * slideSpeed * 4) \div 10,
                                  @[3] + d.rotation[3] + (t * slideSpeed * 2) \div 10 >>,
                  !.scale = <<d.scale, d.scale, d.scale>>]

SlidingInstance(dm, d, t) ==
    LET slideSpeed == d.speed
        x == d.position[1] + Sin((t * slideSpeed * 5) \div 100) * 5
        y == d.position[2] + Cos((t * slideSpeed * 7) \div 100) * 5
        z == WrapZ(JsRem(d.position[3] + t * slideSpeed, 40000))
    IN [dm EXCEPT !.position = <<x, y, z>>,
                  !.rotation = << d.rotation[1] + (t * slideSpeed * 3) \div 10,
                                  d.rotation[2] + (t * slideSpeed * 4) \div 10,
                                  d.rotation[3] + (t * slideSpeed * 2) \div 10 >>,
                  !.scale = <<d.scale, d.scale, d.scale>>]

\* dummy.updateMatrix()
UpdateMatrix(dm) ==
    [dm EXCEPT !.matrix = Compose(dm.position, dm.rotation, dm.scale)]

\* the body of group.forEach up to updateMatrix
AnimateInstance(v, dm, d, t) ==
    UpdateMatrix(IF v = "wobble" THEN WobbleInstance(dm, d, t)
                                 ELSE SlidingInstance(dm, d, t))

\* variant: the animated position stored back into the descriptor
DescriptorAfterInPlace(v, d, t) ==
    [d EXCEPT !.position = AnimateInstance(v, DummyInit, d, t).position]

\* the descriptor after the loop body has run on it: it is only read
DescriptorAfter(v, d, t) == d

SetMatrixAt(g, i, m) == [op |-> "setMatrixAt", g |-> g, i |-> i, m |-> m]

MarkDirty(log, g) == Append(log, [op |-> "needsUpdate", g |-> g])

RECURSIVE WriteGroup(_, _, _, _, _, _)
WriteGroup(v, group, g, k, st, t) ==
    IF k > Len(group) THEN st
    ELSE LET dm == AnimateInstance(v, st.dummy, group[k], t)
         IN WriteGroup(v, group, g, k + 1,
                [st EXCEPT !.dummy = dm,
                           !.ops = Append(@, SetMatrixAt(g, SlotIndex(k), dm.matrix))],
                t)

\* variant: the guard removed
SkipClassNever(refs, g) == FALSE

\* if (!meshRefs.current[geoIndex]) return;
SkipClass(refs, g) == ~refs[g]

RECURSIVE MarkDirtyTimes(_, _, _)
MarkDirtyTimes(log, g, n) ==
    IF n = 0 THEN log ELSE MarkDirtyTimes(MarkDirty(log, g), g, n - 1)

\* variant: needsUpdate set inside the instance loop
ClassBodyDirtyPerInstance(v, group, g, st, t) ==
    LET w == WriteGroup(v, group, g, 1, st, t)
    IN [w EXCEPT !.ops = MarkDirtyTimes(@, g, Len(group))]

\* variant: needsUpdate set before the instance loop
ClassBodyDirtyFirst(v, group, g, st, t) ==
    WriteGroup(v, group, g, 1, [st EXCEPT !.ops = MarkDirty(@, g)], t)

\* the callback of instanceGroups.forEach past its guard
ClassBody(v, group, g, st, t) ==
    LET w == WriteGroup(v, group, g, 1, st, t)
    IN [w EXCEPT !.ops = MarkDirty(@, g)]

UpdateClass(v, groups, refs, g, st, t) ==
    IF st.threw THEN st
    ELSE IF SkipClass(refs, g) THEN st
    ELSE IF ~refs[g] THEN [st EXCEPT !.threw = TRUE]   \* member access on null
    ELSE ClassBody(v, groups[g], g, st, t)

\* variant: the frame is abandoned after the class it is at
RunClassesAbandoned(v, groups, refs, g, st, t) == UpdateClass(v, groups, refs, g, st, t)

RECURSIVE RunClasses(_, _, _, _, _, _)
RunClasses(v, groups, refs, g, st, t) ==
    IF g >= NumGeometries THEN st
    ELSE RunClasses(v, groups, refs, g + 1, UpdateClass(v, groups, refs, g, st, t), t)

\* instanceGroups[data.geometryIndex].push(data) on an index the array of
\* groups does not hold: push is read from undefined, a TypeError
GroupingThrows(data) ==
    \E k \in DOMAIN data : data[k].geometryIndex \notin 0 .. NumGeometries - 1

FrameResult(v, data, refs, dm, t) ==
    IF GroupingThrows(data) THEN [dummy |-> dm, ops |-> <<>>, threw |-> TRUE]
    ELSE RunClasses(v, InstanceGroups(data), refs, 0,
                    [dummy |-> dm, ops |-> <<>>, threw |-> FALSE], t)

-----------------------------------------------------------------------------
(* The page sections and where the window shows them *)

\* const sections = ['hero', 'profile', 'projects', 'skills', 'contact']
SectionList == <<"hero", "profile", "projects", "skills", "contact">>

\* window.innerHeight
InnerHeight == 900

\* what sectionsRef.current[section] and its getBoundingClientRect() can be:
\* no element; a box ending just above the line at a third of the window; a
\* box starting on the line; a box ending on the line; a box starting just
\* below it
NoElement == [el |-> FALSE, top |-> 0, bottom |-> 0]
RectAbove == [el |-> TRUE, top |-> -500, bottom |-> 299]
RectFromLine == [el |-> TRUE, top |-> 300, bottom |-> 900]
RectToLine == [el |-> TRUE, top |-> -100, bottom |-> 300]
RectBelow == [el |-> TRUE, top |-> 301, bottom |-> 1200]
RectKinds == {NoElement, RectAbove, RectFromLine, RectToLine, RectBelow}

Layouts == [DOMAIN SectionList -> RectKinds]

\* the page after element.scrollIntoView(): the section at the top of the
\* window, the earlier ones above it, the later ones below
NavLayout(i) ==
    [j \in DOMAIN SectionList |->
        [el |-> TRUE, top |-> (j - i) * InnerHeight, bottom |-> (j - i + 1) * InnerHeight]]

\* variant: the comparisons strict
ContainsLineStrictly(rect) ==
    rect.el /\ rect.top * 3 < InnerHeight /\ rect.bottom * 3 > InnerHeight

\* the callback of sections.find: element && rect.top <= window.innerHeight / 3
\* && rect.bottom >= window.innerHeight / 3
ContainsLine(rect) ==
    rect.el /\ rect.top * 3 <= InnerHeight /\ rect.bottom * 3 >= InnerHeight

\* sections.find(...): the first section, in list order, the callback
\* accepts, or undefined
RECURSIVE FindFrom(_, _)
FindFrom(layout, i) ==
    IF i > Len(SectionList) THEN "none"
    ELSE IF ContainsLine(layout[i]) THEN SectionList[i]
    ELSE FindFrom(layout, i + 1)

FindCurrent(layout) == FindFrom(layout, 1)

-----------------------------------------------------------------------------
(* State machine of the background view *)

TypeOK ==
    /\ variant \in {"wobble", "sliding"}
    /\ instanceData \in DescriptorLists(variant)
    /\ bgView \in {"pending", "mounted", "unmounted"}
    /\ capacity \in [Classes -> 0 .. Count]
    /\ meshRefs \in [Classes -> BOOLEAN]
    /\ clock \in 0 .. MaxT
    /\ error \in BOOLEAN
    /\ reused \in BOOLEAN

InitBackground ==
    /\ variant \in {"wobble", "sliding"}
    /\ instanceData \in DescriptorLists(variant)
    /\ bgView = "pending"
    /\ capacity = [g \in Classes |-> 0]
    /\ meshRefs = [g \in Classes |-> FALSE]
    /\ dummy = DummyInit
    /\ clock = 0
    /\ ops = <<>>
    /\ error = FALSE
    /\ reused = FALSE
    /\ event = "init"

Builds == {"part_000", "part_001", "App.jsx"}

\* the background animation each file holds
VariantOf(b) == IF b = "App.jsx" THEN "sliding" ELSE "wobble"

InitModal ==
    /\ selectedProject = "none"
    /\ shownProject = "none"
    /\ modalView = "absent"
    /\ asset = "idle"
    /\ modelRef = FALSE
    /\ roverSpin = 0
    /\ build = IF variant = "sliding" THEN "App.jsx" ELSE "part_000"
    /\ env = "pending"
    /\ scene = << >>
    /\ fallback = FALSE
    /\ crashed = FALSE

InitAux ==
    /\ probe = [fn |-> "none"]
    /\ result = << >>
    /\ gear = GearInit
    /\ geometries = EmptyMemo
    /\ activeSection = "hero"
    /\ rects = NavLayout(1)

Init == InitBackground /\ InitModal /\ InitAux

\* the factory of the geometries memo
BaseGeometries(v) ==
    IF v = "wobble"
    THEN <<"box", "cylinder", "cone", "dodecahedron", "torus">>
    ELSE <<"box", "cylinder", "box", "icosahedron", "torus">>

\* first render: the geometries are built, each instancedMesh is constructed
\* with its args
Mount ==
    /\ bgView = "pending"
    /\ bgView' = "mounted"
    /\ capacity' = [g \in Classes |-> AllocatedCount(instanceData, g)]
    /\ geometries' = UseMemo(geometries, << >>, BaseGeometries(variant))
    /\ ops' = <<>> /\ error' = FALSE /\ reused' = FALSE /\ event' = "lifecycle"
    /\ UNCHANGED <<variant, instanceData, meshRefs, dummy, clock>>
    /\ UNCHANGED modalVars /\ UNCHANGED <<probe, result, gear, activeSection, rects>>

\* a later render of BackgroundInstances, its parent having rendered again:
\* the hooks run again with the same dependency lists
Rerender ==
    /\ bgView = "mounted"
    /\ geometries' = UseMemo(geometries, << >>, BaseGeometries(variant))
    /\ ops' = <<>> /\ error' = FALSE /\ reused' = FALSE /\ event' = "lifecycle"
    /\ UNCHANGED <<variant, instanceData, bgView, capacity, meshRefs, dummy, clock>>
    /\ UNCHANGED modalVars /\ UNCHANGED <<probe, result, gear, activeSection, rects>>

\* groupRef.current.rotation.y = t * 0.02
GroupRotation(t) == << [op |-> "groupRotate", y |-> t * 20] >>

\* the useFrame callback of BackgroundScene; its group is set while the
\* scene is mounted
SceneFrame ==
    /\ ops' = IF bgView = "mounted" THEN GroupRotation(clock) ELSE << >>
    /\ error' = FALSE /\ reused' = FALSE /\ event' = "sceneFrame"
    /\ UNCHANGED <<variant, instanceData, bgView, capacity, meshRefs, dummy, clock>>
    /\ UNCHANGED modalVars /\ UNCHANGED auxVars

\* variant: the callback ignores null and keeps the stale mesh
RefCallbackKeepsStale(refs, index, el) ==
    IF el THEN [refs EXCEPT ![index] = TRUE] ELSE refs

\* ref={el => meshRefs.current[index] = el}; el is a mesh (TRUE) or null (FALSE)
RefCallback(refs, index, el) == [refs EXCEPT ![index] = el]

\* React hands the constructed mesh of class g to its ref callback
AttachRef(g) ==
    /\ bgView = "mounted"
    /\ ~meshRefs[g]
    /\ meshRefs' = RefCallback(meshRefs, g, TRUE)
    /\ ops' = <<>> /\ error' = FALSE /\ reused' = FALSE /\ event' = "lifecycle"
    /\ UNCHANGED <<variant, instanceData, bgView, capacity, dummy, clock>>
    /\ UNCHANGED modalVars /\ UNCHANGED auxVars

\* React calls the ref callback of class g with null
DetachRef(g) ==
    /\ bgView = "mounted"
    /\ meshRefs[g]
    /\ meshRefs' = RefCallback(meshRefs, g, FALSE)
    /\ ops' = <<>> /\ error' = FALSE /\ reused' = FALSE /\ event' = "lifecycle"
    /\ UNCHANGED <<variant, instanceData, bgView, capacity, dummy, clock>>
    /\ UNCHANGED modalVars /\ UNCHANGED auxVars

\* removing the component calls every ref callback with null
RECURSIVE DetachAll(_, _)
DetachAll(refs, g) ==
    IF g >= NumGeometries THEN refs
    ELSE DetachAll(RefCallback(refs, g, FALSE), g + 1)

Unmount ==
    /\ bgView = "mounted"
    /\ bgView' = "unmounted"
    /\ meshRefs' = DetachAll(meshRefs, 0)
    /\ ops' = <<>> /\ error' = FALSE /\ reused' = FALSE /\ event' = "lifecycle"
    /\ UNCHANGED <<variant, instanceData, capacity, dummy, clock>>
    /\ UNCHANGED modalVars /\ UNCHANGED auxVars

\* the useFrame callback of BackgroundInstances
Frame ==
    \E nt \in clock .. MaxT :
        LET st == FrameResult(variant, instanceData, meshRefs, dummy, nt)
        IN /\ clock' = nt
           /\ dummy' = st.dummy
           /\ ops' = st.ops
           /\ error' = st.threw
           /\ instanceData' =
                [k \in DOMAIN instanceData |-> DescriptorAfter(variant, instanceData[k], nt)]
           /\ reused' = (dummy # DummyInit)
           /\ event' = "frame"
           /\ UNCHANGED <<variant, bgView, capacity, meshRefs>>
           /\ UNCHANGED modalVars /\ UNCHANGED auxVars

-----------------------------------------------------------------------------
(* State machine of the project modal and its rover viewer *)

ProjectIds == {"rover", "fea", "cfd", "suspension"}

ModalTypeOK ==
    /\ selectedProject \in ProjectIds \cup {"none"}
    /\ shownProject \in ProjectIds \cup {"none"}
    /\ modalView \in {"absent", "present", "exiting"}
    /\ asset \in {"idle", "pending", "loaded", "failed"}
    /\ modelRef \in BOOLEAN
    /\ roverSpin \in 0 .. MaxSpin
    /\ build \in Builds
    /\ env \in {"pending", "loaded"}
    /\ fallback \in BOOLEAN
    /\ crashed \in BOOLEAN

\* variant: every project mounts the rover model
MountsRoverAlways(p) == TRUE

\* project.id === 'rover' ? <CustomRoverModel /> : <GenericCADModel />
MountsRover(p) == p = "rover"

\* variant: the boundary does not wait for the model asset
ReadyWithoutAsset(p, a, e) == e = "loaded"

\* the children of the modal's Suspense render without suspending: the
\* environment map is there and, for the rover, useGLTF has its scene
Ready(p, a, e) == e = "loaded" /\ (MountsRover(p) => a = "loaded")

\* nodes of a loaded scene as the loader creates them
OriginalMaterial == [color |-> "asset", metalness |-> 1000, roughness |-> 1000]
NoMaterial == [color |-> "none", metalness |-> 0, roughness |-> 0]
MeshNode ==
    [isMesh |-> TRUE, castShadow |-> FALSE, receiveShadow |-> FALSE,
     material |-> OriginalMaterial]
GroupNode ==
    [isMesh |-> FALSE, castShadow |-> FALSE, receiveShadow |-> FALSE,
     material |-> NoMaterial]

Scenes == UNION {[1 .. n -> {MeshNode, GroupNode}] : n \in 0 .. MaxNodes}

\* new THREE.MeshStandardMaterial({ color: UI_GRAY, metalness: 0.8, roughness: 0.2 })
NewMaterial == [color |-> "UI_GRAY", metalness |-> 800, roughness |-> 200]

\* the callback of scene.traverse in the effect of CustomRoverModel
TraverseNode(b, child) ==
    IF child.isMesh
    THEN [child EXCEPT !.castShadow = TRUE, !.receiveShadow = TRUE,
                       !.material = IF b = "part_001" THEN @ ELSE NewMaterial]
    ELSE child

\* useEffect(() => { if (scene) scene.traverse(...) }, [scene])
Traverse(b, nodes) == [k \in DOMAIN nodes |-> TraverseNode(b, nodes[k])]

\* the modal canvas after a render of project p: the fallback or the
\* children, a rendered rover setting its ref and running its effect
ViewerRender(p, a, e, nodes) ==
    /\ fallback' = ~Ready(p, a, e)
    /\ modelRef' = (MountsRover(p) /\ Ready(p, a, e))
    /\ scene' = IF MountsRover(p) /\ Ready(p, a, e) THEN Traverse(build, nodes) ELSE nodes

\* a render throws and no component catches it: React removes the whole tree,
\* both canvases with it
Crash ==
    /\ crashed' = TRUE
    /\ selectedProject' = "none"
    /\ shownProject' = "none"
    /\ modalView' = "absent"
    /\ modelRef' = FALSE
    /\ fallback' = FALSE
    /\ bgView' = "unmounted"
    /\ meshRefs' = DetachAll(meshRefs, 0)
    /\ UNCHANGED <<variant, instanceData, capacity, dummy, clock>>
    /\ UNCHANGED <<roverSpin, build, env, scene>>

\* the project card's onClick={() => setSelectedProject(project)}; the modal
\* mounts, and a rover viewer suspends on useGLTF until the asset is cached
\* or throws the error the loader has cached
OpenProject(p) ==
    /\ modalView = "absent"
    /\ ~crashed
    /\ IF MountsRover(p) /\ asset = "failed"
       THEN Crash /\ UNCHANGED asset
       ELSE LET requested == IF MountsRover(p) /\ asset = "idle" THEN "pending" ELSE asset
            IN /\ selectedProject' = p
               /\ shownProject' = p
               /\ modalView' = "present"
               /\ asset' = requested
               /\ ViewerRender(p, requested, env, scene)
               /\ UNCHANGED <<variant, instanceData, bgView, capacity, meshRefs, dummy, clock>>
               /\ UNCHANGED <<roverSpin, build, env, crashed>>
    /\ ops' = <<>> /\ error' = FALSE /\ reused' = FALSE /\ event' = "ui"
    /\ UNCHANGED auxVars

\* the loader resolves with the scene of the file: a suspended viewer renders again
AssetLoaded(nodes) ==
    /\ asset = "pending"
    /\ asset' = "loaded"
    /\ IF modalView # "absent"
       THEN ViewerRender(shownProject, "loaded", env, nodes)
       ELSE scene' = nodes /\ UNCHANGED <<fallback, modelRef>>
    /\ ops' = <<>> /\ error' = FALSE /\ reused' = FALSE /\ event' = "lifecycle"
    /\ UNCHANGED <<variant, instanceData, bgView, capacity, meshRefs, dummy, clock>>
    /\ UNCHANGED auxVars
    /\ UNCHANGED <<selectedProject, shownProject, modalView, roverSpin, build, env, crashed>>

\* the loader rejects (file missing or malformed): useGLTF throws the error
\* in the render of a mounted rover viewer
AssetFailed ==
    /\ asset = "pending"
    /\ asset' = "failed"
    /\ IF modalView # "absent" /\ MountsRover(shownProject)
       THEN Crash
       ELSE /\ UNCHANGED <<variant, instanceData, bgView, capacity, meshRefs, dummy, clock>>
            /\ UNCHANGED <<selectedProject, shownProject, modalView, modelRef, roverSpin,
                           build, env, scene, fallback, crashed>>
    /\ ops' = <<>> /\ error' = FALSE /\ reused' = FALSE /\ event' = "lifecycle"
    /\ UNCHANGED auxVars

\* the environment map arrives: a suspended viewer renders again
EnvLoaded ==
    /\ env = "pending"
    /\ env' = "loaded"
    /\ IF modalView # "absent"
       THEN ViewerRender(shownProject, asset, "loaded", scene)
       ELSE UNCHANGED <<fallback, modelRef, scene>>
    /\ ops' = <<>> /\ error' = FALSE /\ reused' = FALSE /\ event' = "lifecycle"
    /\ UNCHANGED <<variant, instanceData, bgView, capacity, meshRefs, dummy, clock>>
    /\ UNCHANGED auxVars
    /\ UNCHANGED <<selectedProject, shownProject, modalView, asset, roverSpin, build, crashed>>

\* variant: the close button starts the exit and leaves the selection
CloseModalKeepsSelection ==
    /\ modalView = "present"
    /\ modalView' = "exiting"
    /\ ops' = <<>> /\ error' = FALSE /\ reused' = FALSE /\ event' = "ui"
    /\ UNCHANGED <<variant, instanceData, bgView, capacity, meshRefs, dummy, clock>>
    /\ UNCHANGED auxVars
    /\ UNCHANGED <<selectedProject, shownProject, asset, modelRef, roverSpin, build, env,
                   scene, fallback, crashed>>

\* onClose={() => setSelectedProject(null)}: AnimatePresence keeps the modal
\* mounted with its last props while the exit animation runs
CloseModal ==
    /\ modalView = "present"
    /\ selectedProject' = "none"
    /\ modalView' = "exiting"
    /\ ops' = <<>> /\ error' = FALSE /\ reused' = FALSE /\ event' = "ui"
    /\ UNCHANGED <<variant, instanceData, bgView, capacity, meshRefs, dummy, clock>>
    /\ UNCHANGED auxVars
    /\ UNCHANGED <<shownProject, asset, modelRef, roverSpin, build, env, scene,
                   fallback, crashed>>

\* modelRef.current once the primitive is removed
ModelRefAfterUnmount(ref) == FALSE

\* the exit animation ends and the modal is removed
ExitComplete ==
    /\ modalView = "exiting"
    /\ modalView' = "absent"
    /\ shownProject' = "none"
    /\ modelRef' = ModelRefAfterUnmount(modelRef)
    /\ fallback' = FALSE
    /\ ops' = <<>> /\ error' = FALSE /\ reused' = FALSE /\ event' = "lifecycle"
    /\ UNCHANGED <<variant, instanceData, bgView, capacity, meshRefs, dummy, clock>>
    /\ UNCHANGED auxVars
    /\ UNCHANGED <<selectedProject, asset, roverSpin, build, env, scene, crashed>>

\* if (modelRef.current)
RoverGuard(ref) == ref

\* the useFrame callback of CustomRoverModel
RoverFrame ==
    /\ RoverGuard(modelRef) => roverSpin < MaxSpin
    /\ IF RoverGuard(modelRef)
       THEN /\ roverSpin' = roverSpin + 1
            /\ ops' = << [op |-> "rotate"] >>
       ELSE /\ roverSpin' = roverSpin
            /\ ops' = <<>>
    /\ error' = FALSE /\ reused' = FALSE /\ event' = "roverFrame"
    /\ UNCHANGED <<variant, instanceData, bgView, capacity, meshRefs, dummy, clock>>
    /\ UNCHANGED auxVars
    /\ UNCHANGED <<selectedProject, shownProject, modalView, asset, modelRef,
                   build, env, scene, fallback, crashed>>

Sections == {"hero", "profile", "projects", "skills", "contact"}

\* handleScroll: the section found at a third of the window height, if there
\* is one, becomes the active section
HandleScroll(current) ==
    /\ ~crashed
    /\ activeSection' = IF current # "none" THEN current ELSE activeSection
    /\ ops' = <<>> /\ error' = FALSE /\ reused' = FALSE /\ event' = "ui"
    /\ UNCHANGED <<variant, instanceData, bgView, capacity, meshRefs, dummy, clock>>
    /\ UNCHANGED modalVars
    /\ UNCHANGED <<probe, result, gear, geometries, rects>>

\* variant: every file registers the listener
HasScrollListenerAlways(b) == TRUE

\* window.addEventListener('scroll', handleScroll)
HasScrollListener(b) == b # "App.jsx"

\* the scroll event delivered to the listener
ScrollEvent ==
    /\ HasScrollListener(build)
    /\ HandleScroll(FindCurrent(rects))

\* the user scrolls the window: the boxes of the sections move
Scroll(layout) ==
    /\ ~crashed
    /\ rects' = layout
    /\ ops' = <<>> /\ error' = FALSE /\ reused' = FALSE /\ event' = "scroll"
    /\ UNCHANGED <<variant, instanceData, bgView, capacity, meshRefs, dummy, clock>>
    /\ UNCHANGED modalVars
    /\ UNCHANGED <<probe, result, gear, geometries, activeSection>>

\* scrollToSection(id), the onClick of a navigation item
ScrollToSection(i) ==
    /\ ~crashed
    /\ rects' = IF rects[i].el THEN NavLayout(i) ELSE rects
    /\ ops' = <<>> /\ error' = FALSE /\ reused' = FALSE /\ event' = "nav"
    /\ UNCHANGED <<variant, instanceData, bgView, capacity, meshRefs, dummy, clock>>
    /\ UNCHANGED modalVars
    /\ UNCHANGED <<probe, result, gear, geometries, activeSection>>

\* a rover file of one mesh
ViewScenes == {<< MeshNode >>}

ModalNext ==
    \/ \E p \in ProjectIds : OpenProject(p)
    \/ \E nodes \in ViewScenes : AssetLoaded(nodes)
    \/ EnvLoaded
    \/ CloseModal
    \/ ExitComplete
    \/ RoverFrame

Next ==
    \/ Mount
    \/ \E g \in Classes : AttachRef(g)
    \/ \E g \in Classes : DetachRef(g)
    \/ Unmount
    \/ Frame

Spec == Init /\ [][Next]_vars

(* The z coordinate of the sliding variant as a function of its inputs *)

\* everything but the function under test at rest
SceneAtRest ==
    /\ variant = "sliding"
    /\ instanceData = << >>
    /\ bgView = "pending"
    /\ capacity = [g \in Classes |-> 0]
    /\ meshRefs = [g \in Classes |-> FALSE]
    /\ dummy = DummyInit
    /\ clock = 0
    /\ ops = << >>
    /\ error = FALSE
    /\ reused = FALSE
    /\ event = "init"
    /\ InitModal

\* base z over the setup range (0.5 - Math.random()) * 40, both ends included
SlideBaseZ == {-20000, -19999, -7000, -1, 0, 1, 12345, 19990, 20000}
\* Math.random() * 0.05 + 0.01 and other positive speeds
SlideSpeeds == {1, 10, 35, 59, 500}
\* elapsed seconds
SlideTimes == {0, 1, 2, 339, 340, 678, 1000, 4000}

SlideDescriptor(baseZ, speed) ==
    [position |-> <<0, 0, baseZ>>, rotation |-> <<0, 0, 0>>, scale |-> 1000,
     geometryIndex |-> 0, speed |-> speed]

InitSlide ==
    /\ SceneAtRest
    /\ probe \in [fn : {"slideZ"}, baseZ : SlideBaseZ, speed : SlideSpeeds, t : SlideTimes]
    /\ result = << >>
    /\ gear = GearInit
    /\ geometries = EmptyMemo
    /\ activeSection = "hero"
    /\ rects = NavLayout(1)

\* one run of the instance body of the sliding useFrame on the probe
SlideCall ==
    /\ probe.fn = "slideZ"
    /\ result = << >>
    /\ result' = << SlidingInstance(DummyInit, SlideDescriptor(probe.baseZ, probe.speed),
                                    probe.t).position[3] >>
    /\ UNCHANGED <<variant, instanceData, bgView, capacity, meshRefs, dummy, clock,
                   ops, error, reused, event, probe, gear, geometries, activeSection, rects>>
    /\ UNCHANGED modalVars

SpecSlide == InitSlide /\ [][SlideCall]_vars

(* The instance body of either variant as a function of its inputs *)

\* base coordinates over the setup range (0.5 - Math.random()) * 25
WobbleBaseX == {-12500, -4321, 0, 1570, 12500}
WobbleBaseYZ == {-12500, 0, 9999}
\* elapsed seconds
WobbleTimes == {0, 1, 2, 7, 100, 314}

WobbleDescriptor(x, y, z) == [position |-> <<x, y, z>>, geometryIndex |-> 0]

WobbleProbes ==
    [fn : {"wobble"}, x : WobbleBaseX, y : WobbleBaseYZ, z : WobbleBaseYZ, t : WobbleTimes]

\* base coordinates over the setup range (0.5 - Math.random()) * 40, which
\* Math.random() < 1 keeps above -20
SlidingBaseXY == {-7000, 12345}
SlidingBaseZ == {-19999, -7000, 0, 12345, 20000}
\* speeds within Math.random() * 0.05 + 0.01
SlidingSpeeds == {10, 20, 40}
SlidingTimes == {0, 1, 339, 1234, 4000}

SlidingProbes ==
    [fn : {"sliding"}, x : SlidingBaseXY, y : SlidingBaseXY, z : SlidingBaseZ,
     speed : SlidingSpeeds, t : SlidingTimes]

SlidingDescriptor(x, y, z, speed) ==
    [position |-> <<x, y, z>>, rotation |-> <<0, 0, 0>>, scale |-> 1000,
     geometryIndex |-> 0, speed |-> speed]

\* the descriptors the scratch object is passed between: the first three of
\* the setup, put in one class
ScratchDescriptor(v, k) == CHOOSE d \in Descriptors(v, k) : d.geometryIndex = 0
ScratchTimes == {0, 1, 7}

\* an instance p processed at time tp, in an earlier frame or class, and
\* then the instances a and b of one group at time t
ScratchProbes ==
    [fn : {"scratch"}, v : {"wobble", "sliding"}, p : 1 .. 3, a : 1 .. 3, b : 1 .. 3,
     tp : ScratchTimes, t : ScratchTimes]

InitInstance ==
    /\ SceneAtRest
    /\ probe \in WobbleProbes \cup SlidingProbes \cup ScratchProbes
    /\ result = << >>
    /\ gear = GearInit
    /\ geometries = EmptyMemo
    /\ activeSection = "hero"
    /\ rects = NavLayout(1)

\* one run of the instance body of the wobble useFrame on the probe
WobbleCall ==
    /\ probe.fn = "wobble"
    /\ result = << >>
    /\ result' = << WobbleInstance(DummyInit, WobbleDescriptor(probe.x, probe.y, probe.z),
                                   probe.t) >>
    /\ UNCHANGED <<variant, instanceData, bgView, capacity, meshRefs, dummy, clock,
                   ops, error, reused, event, probe, gear, geometries, activeSection, rects>>
    /\ UNCHANGED modalVars

\* one run of the instance body of the sliding useFrame on the probe
SlidingCall ==
    /\ probe.fn = "sliding"
    /\ result = << >>
    /\ result' = << SlidingInstance(DummyInit,
                        SlidingDescriptor(probe.x, probe.y, probe.z, probe.speed), probe.t) >>
    /\ UNCHANGED <<variant, instanceData, bgView, capacity, meshRefs, dummy, clock,
                   ops, error, reused, event, probe, gear, geometries, activeSection, rects>>
    /\ UNCHANGED modalVars

\* group.forEach over the group of a and b, in either order, on the scratch
\* object as the instance p left it
ScratchCall ==
    /\ probe.fn = "scratch"
    /\ result = << >>
    /\ LET left == AnimateInstance(probe.v, DummyInit, ScratchDescriptor(probe.v, probe.p),
                                   probe.tp)
           a == ScratchDescriptor(probe.v, probe.a)
           b == ScratchDescriptor(probe.v, probe.b)
           st == [dummy |-> left, ops |-> <<>>, threw |-> FALSE]
       IN result' = << WriteGroup(probe.v, <<a, b>>, 0, 1, st, probe.t),
                       WriteGroup(probe.v, <<b, a>>, 0, 1, st, probe.t) >>
    /\ UNCHANGED <<variant, instanceData, bgView, capacity, meshRefs, dummy, clock,
                   ops, error, reused, event, probe, gear, geometries, activeSection, rects>>
    /\ UNCHANGED modalVars

NextInstance ==
    \/ WobbleCall
    \/ SlidingCall
    \/ ScratchCall

SpecInstance == InitInstance /\ [][NextInstance]_vars

(* The gear component on its own *)

InitGear == SceneAtRest /\ InitAux

SpecGear == InitGear /\ [][GearNext]_vars

RoundRobin(data) ==
    \A k \in DOMAIN data : data[k].geometryIndex = (k - 1) % NumGeometries

(* The sliding scene: the instanced shapes and a gear of the scene together *)

\* <TechnicalGear size={2} teeth={16} /> and <TechnicalGear size={1} teeth={8} />
SceneGears == {<<2000, 16>>, <<1000, 8>>}

InitScene == Init /\ variant = "sliding" /\ RoundRobin(instanceData)

NextScene ==
    \/ Next
    \/ Rerender
    \/ \E p \in SceneGears : GearRender(p[1], p[2])
    \/ GearFrame

SpecScene == InitScene /\ [][NextScene]_vars

(* The page: every callback and handler that runs beside the background frame *)

InitPage == Init /\ RoundRobin(instanceData)

RECURSIVE AttachAll(_, _)
AttachAll(refs, g) ==
    IF g >= NumGeometries THEN refs ELSE AttachAll(RefCallback(refs, g, TRUE), g + 1)

\* the first render together with its commit, in which React calls the ref
\* callback of every instancedMesh before any frame runs
MountCommit ==
    /\ bgView = "pending"
    /\ bgView' = "mounted"
    /\ capacity' = [g \in Classes |-> AllocatedCount(instanceData, g)]
    /\ geometries' = UseMemo(geometries, << >>, BaseGeometries(variant))
    /\ meshRefs' = AttachAll(meshRefs, 0)
    /\ ops' = <<>> /\ error' = FALSE /\ reused' = FALSE /\ event' = "lifecycle"
    /\ UNCHANGED <<variant, instanceData, dummy, clock>>
    /\ UNCHANGED modalVars /\ UNCHANGED <<probe, result, gear, activeSection, rects>>

NextPage ==
    \/ MountCommit
    \/ Unmount
    \/ Frame
    \/ SceneFrame
    \/ ModalNext
    \/ \E current \in Sections \cup {"none"} :
            HasScrollListener(build) /\ HandleScroll(current)

SpecPage == InitPage /\ [][NextPage]_vars

(* The project modal in each of the three files, over a running background *)

InitBuilds ==
    /\ InitBackground /\ RoundRobin(instanceData)
    /\ selectedProject = "none"
    /\ shownProject = "none"
    /\ modalView = "absent"
    /\ asset = "idle"
    /\ modelRef = FALSE
    /\ roverSpin = 0
    /\ build \in {b \in Builds : VariantOf(b) = variant}
    /\ env = "pending"
    /\ scene = << >>
    /\ fallback = FALSE
    /\ crashed = FALSE
    /\ InitAux

NextModal ==
    \/ MountCommit
    \/ Frame
    \/ \E p \in ProjectIds : OpenProject(p)
    \/ \E nodes \in Scenes : AssetLoaded(nodes)
    \/ AssetFailed
    \/ EnvLoaded
    \/ CloseModal
    \/ ExitComplete
    \/ RoverFrame

SpecModal == InitBuilds /\ [][NextModal]_vars

(* The navigation: scrolling and navigation clicks in each of the three files,
   from any place the page was left at *)

\* one section moved to each kind of place, the others below the line
ScrollTargets ==
    {[j \in DOMAIN SectionList |-> IF j = i THEN kind ELSE RectBelow] :
        i \in DOMAIN SectionList, kind \in RectKinds}

InitScroll ==
    /\ InitBackground /\ RoundRobin(instanceData)
    /\ selectedProject = "none"
    /\ shownProject = "none"
    /\ modalView = "absent"
    /\ asset = "idle"
    /\ modelRef = FALSE
    /\ roverSpin = 0
    /\ build \in {b \in Builds : VariantOf(b) = variant}
    /\ env = "pending"
    /\ scene = << >>
    /\ fallback = FALSE
    /\ crashed = FALSE
    /\ probe = [fn |-> "none"]
    /\ result = << >>
    /\ gear = GearInit
    /\ geometries = EmptyMemo
    /\ activeSection = "hero"
    /\ rects \in Layouts

NextScroll ==
    \/ ScrollEvent
    \/ \E layout \in ScrollTargets : Scroll(layout)
    \/ \E i \in DOMAIN SectionList : ScrollToSection(i)

SpecScroll == InitScroll /\ [][NextScroll]_vars

(* Both views together, the background with one descriptor per class in turn *)

InitViews == Init /\ RoundRobin(instanceData)

NextViews == Next \/ ModalNext

SpecViews == InitViews /\ [][NextViews]_vars

-----------------------------------------------------------------------------
(* Properties *)

IsWrite(e) == e.op = "setMatrixAt"
IsDirty(e) == e.op = "needsUpdate"

\* positions in ops of the slot writes, and of the dirty-flag writes, of class g
WritesTo(g) == {j \in DOMAIN ops : IsWrite(ops[j]) /\ ops[j].g = g}
DirtyOf(g) == {j \in DOMAIN ops : IsDirty(ops[j]) /\ ops[j].g = g}

GroupOf(g) == InstanceGroups(instanceData)[g]

RECURSIVE SumUpTo(_, _)
SumUpTo(f, g) == IF g < 0 THEN 0 ELSE f[g] + SumUpTo(f, g - 1)

\* C1: every slot index a frame update passes to setMatrixAt on the buffer of
\* class g lies in 0 .. capacity(g) - 1, whatever classes the descriptors drew
C1_WritesWithinCapacity ==
    \A j \in DOMAIN ops :
        IsWrite(ops[j]) => (0 <= ops[j].i /\ ops[j].i < capacity[ops[j].g])

\* a frame wrote the last slot of a class holding every descriptor, beside
\* a mounted class that drew none
C1_Witness ==
    /\ event = "frame"
    /\ \E g \in Classes : capacity[g] = Count /\ \E j \in WritesTo(g) : ops[j].i = Count - 1
    /\ \E h \in Classes : meshRefs[h] /\ capacity[h] = 0

\* C2: for every class the group a frame builds is as long as the count its
\* instanced buffer was allocated with
C2_GroupSizeIsCapacity ==
    bgView = "mounted" => \A g \in Classes : Len(GroupOf(g)) = capacity[g]

\* a frame ran on mounted buffers, one class empty and one holding descriptors
C2_Witness ==
    /\ event = "frame" /\ bgView = "mounted"
    /\ \E g \in Classes : Len(GroupOf(g)) = 0
    /\ \E g \in Classes : Len(GroupOf(g)) > 0 /\ meshRefs[g]

\* C3: the groups partition the descriptor list: each descriptor is in exactly
\* one group, and the group sizes, like the capacities, add up to count
C3_GroupsPartition ==
    /\ \A k \in DOMAIN instanceData :
          Cardinality({g \in Classes :
              \E j \in DOMAIN GroupOf(g) : GroupOf(g)[j] = instanceData[k]}) = 1
    /\ SumUpTo([g \in Classes |-> Len(GroupOf(g))], NumGeometries - 1) = Count
    /\ bgView = "mounted" => SumUpTo(capacity, NumGeometries - 1) = Count

\* mounted buffers with the descriptors spread over more than one class
C3_Witness ==
    /\ bgView = "mounted" /\ event = "frame"
    /\ Cardinality({g \in Classes : capacity[g] > 0}) > 1

\* C4: after a frame update every slot 0 .. capacity(g) - 1 of every mounted
\* class g has been written exactly once in that frame
C4_EverySlotOnce ==
    event = "frame" =>
        \A g \in Classes : meshRefs[g] =>
            \A i \in 0 .. (capacity[g] - 1) :
                Cardinality({j \in WritesTo(g) : ops[j].i = i}) = 1

\* a frame ran on a mounted class that holds more than one descriptor
C4_Witness ==
    /\ event = "frame"
    /\ \E g \in Classes : meshRefs[g] /\ capacity[g] > 1

\* C5: a class whose ref is null gets no transform write and no dirty-flag
\* write, the frame raises no error, and the classes whose refs are set are
\* still updated in that frame
C5_NullRefSkipped ==
    event = "frame" =>
        /\ ~error
        /\ \A g \in Classes :
              IF meshRefs[g]
              THEN Cardinality(WritesTo(g)) = Len(GroupOf(g)) /\ DirtyOf(g) # {}
              ELSE WritesTo(g) = {} /\ DirtyOf(g) = {}

\* a frame ran with one non-empty class unmounted and another one mounted
C5_Witness ==
    /\ event = "frame"
    /\ \E g \in Classes : ~meshRefs[g] /\ Len(GroupOf(g)) > 0
    /\ \E h \in Classes : meshRefs[h] /\ Len(GroupOf(h)) > 0

\* C6: a frame callback that runs once its view is torn down writes nothing:
\* no buffer operation after the background is unmounted, no rover rotation
\* after the modal is removed
C6_NoWriteAfterTeardown ==
    /\ bgView = "unmounted" =>
          /\ ~error
          /\ \A j \in DOMAIN ops : ~IsWrite(ops[j]) /\ ~IsDirty(ops[j])
    /\ modalView = "absent" => \A j \in DOMAIN ops : ops[j].op # "rotate"

\* the background frame callback ran after the unmount of a view that had
\* been animated, the rover viewer having spun and been removed as well
C6_Witness ==
    /\ bgView = "unmounted" /\ event = "frame" /\ dummy # DummyInit
    /\ modalView = "absent" /\ roverSpin > 0

\* C7: in a frame the dirty flag of every mounted class is set exactly once,
\* however many instances the class holds, and never for an unmounted class
C7_DirtyOncePerClass ==
    event = "frame" =>
        \A g \in Classes :
            Cardinality(DirtyOf(g)) = IF meshRefs[g] THEN 1 ELSE 0

\* a frame ran on a mounted empty class and a mounted class of several
C7_Witness ==
    /\ event = "frame"
    /\ \E g \in Classes : meshRefs[g] /\ capacity[g] = 0
    /\ \E h \in Classes : meshRefs[h] /\ Cardinality(WritesTo(h)) > 1

\* C8: in a frame no transform write to a class follows that class's
\* dirty-flag write
C8_DirtyAfterWrites ==
    event = "frame" =>
        \A g \in Classes : \A j \in WritesTo(g) : \A d \in DirtyOf(g) : j < d

\* a frame wrote two classes in turn, each flagged after its own writes
C8_Witness ==
    /\ event = "frame"
    /\ Cardinality({g \in Classes : WritesTo(g) # {} /\ DirtyOf(g) # {}}) > 1

\* C9: no step, frame updates included, changes a descriptor
C9_DescriptorsReadOnly == [][instanceData' = instanceData]_vars

\* a second frame has written transforms for every descriptor at a later time
C9_Witness ==
    /\ event = "frame" /\ reused /\ clock > 0
    /\ Cardinality({j \in DOMAIN ops : IsWrite(ops[j])}) = Count

\* the k-th descriptor's rank among the descriptors of its class
RankInClass(data, k) ==
    Cardinality({h \in 1 .. (k - 1) : data[h].geometryIndex = data[k].geometryIndex})

\* the transform a pristine scratch object yields for descriptor d at time t
FreshTransform(v, d, t) == AnimateInstance(v, DummyInit, d, t).matrix

\* C10: what a frame writes is determined by the descriptors and t alone:
\* each mounted descriptor's slot receives the transform a pristine scratch
\* object yields for it at t, whatever earlier frames left behind
C10_WritesDependOnDataAndT ==
    event = "frame" =>
        /\ \A k \in DOMAIN instanceData :
              LET g == instanceData[k].geometryIndex
              IN meshRefs[g] =>
                    \E j \in WritesTo(g) :
                        /\ ops[j].i = RankInClass(instanceData, k)
                        /\ ops[j].m = FreshTransform(variant, instanceData[k], clock)
        /\ \A j \in DOMAIN ops : IsWrite(ops[j]) =>
              \E k \in DOMAIN instanceData :
                  /\ instanceData[k].geometryIndex = ops[j].g
                  /\ RankInClass(instanceData, k) = ops[j].i
                  /\ ops[j].m = FreshTransform(variant, instanceData[k], clock)

\* a frame that found the scratch object used wrote every descriptor
C10_Witness ==
    /\ event = "frame" /\ reused
    /\ Cardinality({j \in DOMAIN ops : IsWrite(ops[j])}) = Count
    /\ \E g \in Classes : Cardinality(WritesTo(g)) > 1

\* C11: in the sliding variant, for a base z in [-20, 20], a speed > 0 and
\* t >= 0, the z written, (baseZ + t * speed) % 40 less 40 when above 20 with
\* the sign-keeping %, lies in [-20, 20]
C11_SlideZBounded ==
    result # << >> => (-20000 <= result[1] /\ result[1] <= 20000)

\* a sum past 20 was wrapped to a negative z
C11_Witness ==
    /\ result # << >>
    /\ probe.baseZ + probe.t * probe.speed > 40000
    /\ JsRem(probe.baseZ + probe.t * probe.speed, 40000) > 20000
    /\ result[1] < 0

\* the profile of the mounted gear
GearPath == gear.memo.value.path

\* C12: the profile of a gear with n teeth has exactly 2n vertices; vertex i
\* lies at angle i * (2 pi / 2n), at the outer radius for even i and at the
\* inner radius for odd i, the first vertex opening the path
C12_GearProfile ==
    gear.mounted =>
        /\ Len(GearPath) = 2 * gear.teeth
        /\ \A i \in 0 .. 2 * gear.teeth - 1 :
              LET angle == (i * (TwoPiMicro \div (2 * gear.teeth))) \div 10000
                  radius == IF i % 2 = 0 THEN gear.size ELSE (gear.size * 85) \div 100
              IN /\ GearPath[i + 1].x = (Cos(angle) * radius) \div 1000
                 /\ GearPath[i + 1].y = (Sin(angle) * radius) \div 1000
                 /\ GearPath[i + 1].cmd = "moveTo" <=> i = 0

\* a 16-tooth gear of size 2 with its 32 vertices, the second on the inner radius
C12_Witness ==
    /\ gear.mounted /\ gear.teeth = 16 /\ gear.size = 2000
    /\ Len(GearPath) = 32
    /\ GearPath[1] = [cmd |-> "moveTo", x |-> 2000, y |-> 0]
    /\ GearPath[2].x * GearPath[2].x + GearPath[2].y * GearPath[2].y < 1700 * 1700

\* C13: a tooth count below 3 is rejected or clamped to 3, so a mounted gear
\* never carries a profile of fewer than 6 vertices (fails: teeth = 2 gives 4)
C13_FewTeethRejected ==
    gear.mounted /\ gear.teeth < 3 =>
        \/ ~gear.memo.valid
        \/ Len(GearPath) >= 6

\* the radii the factory derives from the size prop
GearOuterRadius == gear.size
GearInnerRadius == (gear.size * 85) \div 100
GearHoleRadius == (gear.size * 40) \div 100

\* C14: a non-positive radius, an inner radius not below the outer one or a
\* hole radius not below the inner one makes the generator fail and produce
\* no geometry (fails: size = 0 and size = -1 produce a shape)
C14_InvalidFails ==
    gear.mounted /\ (\/ GearOuterRadius <= 0
                     \/ GearInnerRadius >= GearOuterRadius
                     \/ GearHoleRadius >= GearInnerRadius)
        => ~gear.memo.valid

\* C16: no frame callback builds geometry, and once built the base geometries
\* and the gear geometry stay the same objects until the gear's parameters change
C16_NoBuildInFrame ==
    [][/\ event' \in {"frame", "gearFrame", "roverFrame"}
            => geometries' = geometries /\ gear'.memo = gear.memo
       /\ bgView = "mounted" => geometries' = geometries
       /\ gear.mounted /\ gear'.size = gear.size /\ gear'.teeth = gear.teeth
            => gear'.memo = gear.memo]_vars

\* both memos filled, each built once, the gear having turned and the shapes
\* having been drawn from an advanced clock
C16_Witness ==
    /\ geometries.valid /\ geometries.builds = 1
    /\ gear.memo.valid /\ gear.memo.builds = 1 /\ gear.spin > 0
    /\ event = "frame" /\ clock > 0 /\ ops # << >>

\* C17: only the frame callback of BackgroundInstances writes the instanced
\* buffers, and a frame update is whole: a step that is not that callback
\* holds no slot write and no dirty flag, and a step that is holds, for every
\* mounted class, all of its slot writes followed by its one dirty flag
C17_SingleWriter ==
    /\ event # "frame" => \A j \in DOMAIN ops : ~IsWrite(ops[j]) /\ ~IsDirty(ops[j])
    /\ event = "frame" =>
          /\ Len(ops) = SumUpTo([g \in Classes |->
                                    IF meshRefs[g] THEN Len(GroupOf(g)) + 1 ELSE 0],
                                NumGeometries - 1)
          /\ \A g \in Classes : meshRefs[g] =>
                /\ Cardinality(WritesTo(g)) = Len(GroupOf(g))
                /\ \E d \in DirtyOf(g) : \A j \in WritesTo(g) : j < d

\* a whole frame over two mounted classes with instances, after the rover
\* has turned and a scroll has moved the active section
C17_Witness ==
    /\ event = "frame" /\ activeSection # "hero" /\ roverSpin > 0
    /\ Cardinality({g \in Classes : meshRefs[g] /\ WritesTo(g) # {}}) > 1

\* the modal is on the page and its canvas holds the rover viewer
RoverViewer == modalView # "absent" /\ MountsRover(shownProject)

\* C18: a failed load of the rover asset is caught at the viewer, which then
\* shows the placeholder; nothing propagates and the render loop goes on
\* (fails: the error thrown by useGLTF meets no error boundary)
C18_FailureCaught ==
    asset = "failed" =>
        /\ ~crashed
        /\ RoverViewer => fallback /\ ~modelRef

\* C19 as stated: the placeholder and not the model while the asset is
\* pending, the model and not the placeholder once it has loaded, never both
\* (fails: the asset loaded, the environment map of the same boundary pending)
C19_ModelOnceLoaded ==
    RoverViewer =>
        /\ asset = "pending" => fallback /\ ~modelRef
        /\ asset = "loaded" => modelRef /\ ~fallback
        /\ ~(fallback /\ modelRef)

\* C19, amended: the rover viewer shows the placeholder and not the model
\* while the asset or the environment map is pending, the model and not the
\* placeholder once both have loaded, and never both
C19_ModelOnceReady ==
    RoverViewer =>
        /\ asset = "pending" \/ env = "pending" => fallback /\ ~modelRef
        /\ asset = "loaded" /\ env = "loaded" => modelRef /\ ~fallback
        /\ ~(fallback /\ modelRef)

\* the rover shown in the place of the placeholder, its asset having arrived
\* at an open viewer
C19_Witness ==
    /\ RoverViewer /\ asset = "loaded" /\ env = "loaded"
    /\ modelRef /\ ~fallback /\ event = "lifecycle"

\* C20: once the rover is shown, in each of the three files every mesh node
\* casts and receives shadows and carries the configured material, and every
\* other node is as loaded (fails: part_001 keeps the materials of the file)
C20_MeshesRestyled ==
    modelRef =>
        \A k \in DOMAIN scene :
            IF scene[k].isMesh
            THEN /\ scene[k].castShadow /\ scene[k].receiveShadow
                 /\ scene[k].material = NewMaterial
            ELSE scene[k] = GroupNode

\* the absolute value of an integer
Abs(n) == IF n < 0 THEN 0 - n ELSE n

\* C21: in the wobble variants the written z is the base z, x and y are the
\* base x and y plus 0.1 sin(0.5 t + phase) and 0.1 cos(0.5 t + phase) with
\* phase = 0.1 base x, so neither leaves the base by more than 0.1, and the
\* rotation is sin(0.3 t + phase) about x and cos(0.4 t + phase) about y
C21_WobbleClosedForm ==
    probe.fn = "wobble" /\ result # << >> =>
        LET written == result[1]
            phase == probe.x \div 100
        IN /\ written.position[3] = probe.z
           /\ written.position[1] = probe.x + Sin(probe.t * 50 + phase) \div 10
           /\ written.position[2] = probe.y + Cos(probe.t * 50 + phase) \div 10
           /\ Abs(written.position[1] - probe.x) <= 100
           /\ Abs(written.position[2] - probe.y) <= 100
           /\ written.rotation[1] = Sin(probe.t * 30 + phase)
           /\ written.rotation[2] = Cos(probe.t * 40 + phase)

\* an instance written off its base in x and y at a later time, z in place
C21_Witness ==
    /\ probe.fn = "wobble" /\ result # << >> /\ probe.t > 0 /\ probe.z # 0
    /\ result[1].position[1] # probe.x /\ result[1].position[2] # probe.y
    /\ result[1].position[3] = probe.z

\* whole seconds after which each coordinate repeats: 25 cycles of sin and
\* cos of 0.5 t in the wobble variants; in the sliding variant one cycle of
\* sin(0.5 speed t), 7 cycles of cos(0.7 speed t) and one pass of the 40-unit
\* loop in z
WobblePeriod == (25 * 2 * TwoPi) \div 100
SlidingPeriodX(speed) == (20 * TwoPi) \div speed
SlidingPeriodY(speed) == (100 * TwoPi) \div speed
SlidingPeriodZ(speed) == 40000 \div speed

\* the position the instance body writes for the probe at time t
ProbePosition(t) ==
    IF probe.fn = "wobble"
    THEN WobbleInstance(DummyInit, WobbleDescriptor(probe.x, probe.y, probe.z), t).position
    ELSE SlidingInstance(DummyInit,
            SlidingDescriptor(probe.x, probe.y, probe.z, probe.speed), t).position

RadiusSquared(vertex) == vertex.x * vertex.x + vertex.y * vertex.y

\* C23: for every size > 0 the gear is built with 0 < holeRadius <
\* innerRadius < outerRadius, its hole and its profile vertices lying
\* accordingly, and each of the four gears of the scene has at least 3 teeth
C23_GearSpecHolds ==
    gear.mounted =>
        /\ gear.size > 0 =>
              LET hole == gear.memo.value.holes[1].radius
              IN /\ 0 < hole /\ hole = GearHoleRadius
                 /\ hole < GearInnerRadius
                 /\ GearInnerRadius < GearOuterRadius
                 /\ gear.teeth >= 1 =>
                       /\ GearPath[1].x = GearOuterRadius /\ GearPath[1].y = 0
                       /\ RadiusSquared(GearPath[2]) < GearOuterRadius * GearOuterRadius
                       /\ RadiusSquared(GearPath[2]) > hole * hole
        /\ <<gear.size, gear.teeth>> \in PageGears =>
              gear.teeth >= 3 /\ Len(GearPath) >= 6

\* the largest gear of the scene, built
C23_Witness ==
    /\ gear.mounted /\ <<gear.size, gear.teeth>> = <<3000, 24>>
    /\ gear.memo.valid /\ gear.memo.value.holes[1].radius = 1200
    /\ Len(GearPath) = 48

\* C24 as stated: the modal and its viewer are rendered exactly when
\* selectedProject is not null, and then with that project (fails: the modal
\* stays rendered, with its last project, while its exit animation runs)
C24_RenderedIffSelected ==
    /\ modalView # "absent" <=> selectedProject # "none"
    /\ modalView # "absent" => shownProject = selectedProject

\* C24, amended: selectedProject starts null; a click on a card sets it to
\* that project and renders the modal with it; the close button sets it to
\* null; the modal is rendered exactly when selectedProject is not null or
\* its exit animation is running, always with a project, never with two
C24_ModalFollowsSelection ==
    /\ selectedProject = "none"
    /\ [](/\ selectedProject # "none" <=> modalView = "present"
          /\ modalView = "present" => shownProject = selectedProject
          /\ modalView = "exiting" => shownProject \in ProjectIds
          /\ modalView = "absent" <=> shownProject = "none")
    /\ [][selectedProject' # selectedProject =>
            \/ /\ selectedProject = "none" /\ selectedProject' \in ProjectIds
               /\ event' = "ui" /\ modalView' = "present"
            \/ /\ selectedProject' = "none"
               /\ (event' = "ui" /\ modalView' = "exiting") \/ crashed']_vars

\* a project opened and closed again, its modal still on the page
C24_Witness ==
    /\ modalView = "exiting" /\ selectedProject = "none"
    /\ shownProject \in ProjectIds /\ event = "ui"

\* C25: the viewer holds the rover model only for the project 'rover'; the
\* viewer of any other project holds no rover, waits for nothing but the
\* environment map, and never starts the load of the rover asset, which begins
\* only in a step that opens the rover project
C25_RoverOnlyForRover ==
    /\ [](/\ modelRef => modalView # "absent" /\ shownProject = "rover"
          /\ modalView # "absent" /\ shownProject # "rover" =>
                /\ ~modelRef
                /\ fallback <=> env = "pending"
          /\ modalView # "absent" /\ shownProject = "rover"
                /\ asset = "loaded" /\ env = "loaded" => modelRef)
    /\ [][asset = "idle" /\ asset' # "idle" =>
            asset' = "pending" /\ shownProject' = "rover" /\ event' = "ui"]_vars

\* another project on show, the generic model in place, the rover asset
\* never requested
C25_Witness ==
    /\ modalView = "present" /\ shownProject = "cfd"
    /\ env = "loaded" /\ ~fallback /\ ~modelRef /\ asset = "idle"

\* the sections whose box holds the line at a third of the window height
LineHits ==
    {i \in DOMAIN SectionList :
        /\ rects[i].el
        /\ rects[i].top * 3 <= InnerHeight
        /\ rects[i].bottom * 3 >= InnerHeight}

\* the first of them in list order, or the active section if there is none
FirstHit ==
    IF LineHits = {} THEN activeSection
    ELSE SectionList[CHOOSE i \in LineHits : \A j \in LineHits : i <= j]

\* C26: the active section is always one of the five sections; the scroll
\* handler sets it to the first section of the list whose box holds the line
\* at a third of the window height and leaves it alone if no box does;
\* nothing else changes it
C26_ScrollSelectsFirstHit ==
    /\ [](activeSection \in Sections)
    /\ [][(event' = "ui" => activeSection' = FirstHit)
            /\ (activeSection' # activeSection => event' = "ui")]_vars

\* the handler has run with two boxes on the line, one ending and one
\* starting there, and has taken the earlier section
C26_Witness ==
    /\ build # "App.jsx" /\ event = "ui"
    /\ rects[3] = RectToLine /\ rects[4] = RectFromLine
    /\ LineHits = {3, 4} /\ activeSection = "projects"

\* C27: in App.jsx no scroll listener is registered and setActiveSection is
\* never called, so the active section stays 'hero' whatever is scrolled or
\* clicked
C27_AppStaysOnHero == build = "App.jsx" => activeSection = "hero"

\* App.jsx after a click on the navigation item of the third section, which
\* is now at the top of the window
C27_Witness ==
    /\ build = "App.jsx" /\ event = "nav"
    /\ rects = NavLayout(3) /\ activeSection = "hero"

\* C28: every geometryIndex made at setup is an integer from 0 to the number
\* of geometries less one, so the grouping of a frame finds a group for every
\* descriptor, puts it there and does not throw
C28_GeometryIndexInRange ==
    /\ \A k \in DOMAIN instanceData :
          /\ instanceData[k].geometryIndex \in Int
          /\ instanceData[k].geometryIndex >= 0
          /\ instanceData[k].geometryIndex < NumGeometries
          /\ instanceData[k].geometryIndex \in DOMAIN InstanceGroups(instanceData)
          /\ \E j \in DOMAIN InstanceGroups(instanceData)[instanceData[k].geometryIndex] :
                InstanceGroups(instanceData)[instanceData[k].geometryIndex][j] = instanceData[k]
    /\ event = "frame" => ~error

\* a frame has grouped and written descriptors of the first and of the last
\* class
C28_Witness ==
    /\ event = "frame" /\ ~error
    /\ \E k \in DOMAIN instanceData : instanceData[k].geometryIndex = 0
    /\ \E k \in DOMAIN instanceData : instanceData[k].geometryIndex = NumGeometries - 1
    /\ meshRefs[0] /\ meshRefs[NumGeometries - 1] /\ Len(ops) = Count + 2

\* the slots, as pairs of class and index, that the last frame wrote the
\* transform of the k-th descriptor to
SlotsOf(k) ==
    {<<ops[j].g, ops[j].i>> :
        j \in {h \in DOMAIN ops :
                 /\ IsWrite(ops[h])
                 /\ ops[h].m = FreshTransform(variant, instanceData[k], clock)}}

\* C29: the descriptors and their order never change, every frame writes a
\* mounted descriptor to exactly one slot, that of its class at its rank among
\* the descriptors of the class in creation order, and two frames in a row
\* write it to the same slot
C29_SlotMappingStable ==
    /\ [](event = "frame" =>
            \A k \in DOMAIN instanceData :
                meshRefs[instanceData[k].geometryIndex] =>
                    SlotsOf(k) = {<<instanceData[k].geometryIndex,
                                    RankInClass(instanceData, k)>>})
    /\ [][/\ instanceData' = instanceData
           /\ (event = "frame" /\ event' = "frame") =>
                \A k \in DOMAIN instanceData :
                    (/\ meshRefs[instanceData[k].geometryIndex]
                     /\ meshRefs'[instanceData[k].geometryIndex]) =>
                        SlotsOf(k)' = SlotsOf(k)]_vars

\* a later frame at a later time over two descriptors of one mounted class,
\* written to the slots 0 and 1 as in the frame before
C29_Witness ==
    /\ event = "frame" /\ reused /\ clock > 0
    /\ instanceData[1].geometryIndex = instanceData[2].geometryIndex
    /\ meshRefs[instanceData[1].geometryIndex]
    /\ SlotsOf(1) = {<<instanceData[1].geometryIndex, 0>>}
    /\ SlotsOf(2) = {<<instanceData[2].geometryIndex, 1>>}

\* C30: the one scratch object passes nothing from instance to instance: after
\* an instance p at time tp, the group of a and b processed at t in either
\* order gets for a and for b the transform a pristine scratch object yields
\* for that descriptor at t, and the scratch object is left, in every field,
\* as a pristine one would be after the instance processed last
C30_ScratchCarriesNothing ==
    (probe.fn = "scratch" /\ result # << >>) =>
        LET a == ScratchDescriptor(probe.v, probe.a)
            b == ScratchDescriptor(probe.v, probe.b)
            ab == result[1]
            ba == result[2]
        IN /\ ab.ops[1].m = FreshTransform(probe.v, a, probe.t)
           /\ ab.ops[2].m = FreshTransform(probe.v, b, probe.t)
           /\ ba.ops[1].m = ab.ops[2].m
           /\ ba.ops[2].m = ab.ops[1].m
           /\ ab.dummy = AnimateInstance(probe.v, DummyInit, b, probe.t)
           /\ ba.dummy = AnimateInstance(probe.v, DummyInit, a, probe.t)

\* the sliding body run on a scratch object that an instance of another
\* rotation and scale had turned at an earlier time, over two instances that
\* get different transforms
C30_Witness ==
    /\ probe.fn = "scratch" /\ result # << >>
    /\ probe.v = "sliding" /\ probe.tp > 0 /\ probe.t > probe.tp
    /\ probe.p # probe.a /\ probe.a # probe.b
    /\ ScratchDescriptor(probe.v, probe.p).scale # ScratchDescriptor(probe.v, probe.a).scale
    /\ AnimateInstance(probe.v, DummyInit, ScratchDescriptor(probe.v, probe.p), probe.tp)
            .rotation # <<0, 0, 0>>
    /\ result[1].ops[1].m # result[1].ops[2].m

====
